---------------------------- MODULE Spec2Model ----------------------------
(***************************************************************************)
(* Model of src/main.py: the compounding projection calculate_compounding  *)
(* and the __main__ script that composes three projections into the        *)
(* "Option 2" table (merge by summation, terminal tax row, conclusion).    *)
(*                                                                         *)
(* Numbers: the program computes in float64.  The model computes in exact  *)
(* rationals [n, d] in lowest terms (d > 0); d = 0 is pandas' NaN / None.  *)
(* Rounding error of float64 is therefore outside the model.              *)
(*                                                                         *)
(* Objects: DataFrames live in `heap`; the script's names hold object ids  *)
(* (0 = not bound yet), so that aliasing and in-place updates are visible. *)
(***************************************************************************)
EXTENDS Integers, Sequences, FiniteSets, TLC

\* ------------------------------------------------------------------ bounds
\* Horizon of the three projections of __main__ (40 in the source; scaled
\* down so that exact compounding stays inside TLC's integers).
NYears == 3
\* Largest horizon handed to calculate_compounding when it is checked alone.
MaxYears == 3
\* Largest |initial_investment| and |yearly_contributions| checked alone.
MaxAmount == 2

\* ------------------------------------------------------- program constants
YearlyContribution == 7056
Percent == 100

\* -------------------------------------------------------------- rationals
RECURSIVE GCD(_, _)
GCD(a, b) == IF b = 0 THEN a ELSE GCD(b, a % b)

Abs(a) == IF a < 0 THEN -a ELSE a

Norm(n, d) ==
    LET g == GCD(Abs(n), d) IN [n |-> n \div g, d |-> d \div g]

Rat(n, d) == Norm(n, d)
Zero == [n |-> 0, d |-> 1]
One == [n |-> 1, d |-> 1]
NaN == [n |-> 0, d |-> 0]
IsNaN(x) == x.d = 0

Add(x, y) ==
    IF IsNaN(x) \/ IsNaN(y) THEN NaN
    ELSE LET g == GCD(x.d, y.d)
         IN Norm(x.n * (y.d \div g) + y.n * (x.d \div g), (x.d \div g) * y.d)

Neg(x) == [n |-> -x.n, d |-> x.d]
Sub(x, y) == Add(x, Neg(y))

Mul(x, y) ==
    IF IsNaN(x) \/ IsNaN(y) THEN NaN
    ELSE LET g1 == GCD(Abs(x.n), y.d)
             g2 == GCD(Abs(y.n), x.d)
         IN Norm((x.n \div g1) * (y.n \div g2), (x.d \div g2) * (y.d \div g1))

\* x <= y on numbers (false when either is NaN, as in IEEE comparison)
Leq(x, y) == ~IsNaN(x) /\ ~IsNaN(y) /\ Sub(y, x).n >= 0

\* Python int(x) on a float: truncation toward zero
int(x) == IF x.n >= 0 THEN x.n \div x.d ELSE -((-x.n) \div x.d)

\* --------------------------------------------------------- numpy helpers
repeat(x, n) == [k \in 1..n |-> x]

arange_from_zero(a, b) == [k \in 1..(b - a) |-> a + k - 2]
arange(a, b) == [k \in 1..(b - a) |-> a + k - 1]

RECURSIVE cumsum_twice_first(_)
cumsum_twice_first(s) ==
    IF s = <<>> THEN <<>>
    ELSE LET p == cumsum_twice_first(SubSeq(s, 1, Len(s) - 1))
         IN Append(p, IF p = <<>> THEN Add(s[1], s[1])
                      ELSE Add(p[Len(p)], s[Len(s)]))
RECURSIVE cumsum(_)
cumsum(s) ==
    IF s = <<>> THEN <<>>
    ELSE LET p == cumsum(SubSeq(s, 1, Len(s) - 1))
         IN Append(p, IF p = <<>> THEN s[1] ELSE Add(p[Len(p)], s[Len(s)]))

\* ------------------------------------------------- calculate_compounding
\* future_values[i] of the loop of lines 11-13
RECURSIVE future_value_minus_rate(_, _, _, _)
future_value_minus_rate(rate, initial_investment, yearly_contributions, i) ==
    IF i = 0 THEN initial_investment
    ELSE Add(Mul(future_value_minus_rate(rate, initial_investment,
                                         yearly_contributions, i - 1),
                 Sub(One, rate)),
             yearly_contributions)
RECURSIVE future_value(_, _, _, _)
future_value(rate, initial_investment, yearly_contributions, i) ==
    IF i = 0 THEN initial_investment
    ELSE Add(Mul(future_value(rate, initial_investment,
                              yearly_contributions, i - 1),
                 Add(One, rate)),
             yearly_contributions)

\* the array after the loop, then the slice future_values[1:]
future_values_drop_last(rate, initial_investment, yearly_contributions, n_years) ==
    LET full == [j \in 1..(n_years + 1) |->
                    future_value(rate, initial_investment,
                                 yearly_contributions, j - 1)]
    IN SubSeq(full, 1, n_years)
future_values(rate, initial_investment, yearly_contributions, n_years) ==
    LET full == [j \in 1..(n_years + 1) |->
                    future_value(rate, initial_investment,
                                 yearly_contributions, j - 1)]
    IN Tail(full)

total_contributions(yearly_contributions, n_years) ==
    cumsum(repeat(yearly_contributions, n_years))

accrued_interest_flat(fv, tc) == [k \in 1..Len(fv) |-> Sub(fv[k], tc[1])]
accrued_interest(fv, tc) == [k \in 1..Len(fv) |-> Sub(fv[k], tc[k])]

DataFrame(year, tc, ai, fv) ==
    [k \in 1..Len(year) |->
        [Year |-> year[k], TotalContributions |-> tc[k],
         AccruedInterest |-> ai[k], TotalValue |-> fv[k]]]

\* The call: either a DataFrame (err = "none") or the exception numpy raises.
calculate_compounding(rate, initial_investment, yearly_contributions, n_years) ==
    IF n_years + 1 < 0
    THEN [err |-> "ValueError", rows |-> <<>>]     \* np.zeros(negative)
    ELSE IF n_years + 1 = 0
    THEN [err |-> "IndexError", rows |-> <<>>]     \* future_values[0] of size 0
    ELSE LET fv == future_values(rate, initial_investment,
                                 yearly_contributions, n_years)
             tc == total_contributions(yearly_contributions, n_years)
             ai == accrued_interest(fv, tc)
         IN [err |-> "none",
             rows |-> DataFrame(arange(1, n_years + 1), tc, ai, fv)]

\* ------------------------------------------------------ pandas helpers
\* data_result_3a.copy(): a new object with the same rows
copy_alias(h, src) == [heap |-> h, id |-> src]
copy(h, src) == [heap |-> Append(h, h[src]), id |-> Len(h) + 1]

\* df[col] += other[col] for the three value columns (lines 147-149).
\* Series addition aligns on the index label (row position here): a label of
\* df that other lacks gets NaN, labels only other has are dropped.
merge_sum_without_interest(df, other) ==
    [k \in 1..Len(df) |->
        IF k <= Len(other)
        THEN [Year |-> df[k].Year,
              TotalValue |-> Add(df[k].TotalValue, other[k].TotalValue),
              TotalContributions |->
                  Add(df[k].TotalContributions, other[k].TotalContributions),
              AccruedInterest |-> df[k].AccruedInterest]
        ELSE [Year |-> df[k].Year, TotalValue |-> NaN,
              TotalContributions |-> NaN, AccruedInterest |-> NaN]]
merge_sum(df, other) ==
    [k \in 1..Len(df) |->
        IF k <= Len(other)
        THEN [Year |-> df[k].Year,
              TotalValue |-> Add(df[k].TotalValue, other[k].TotalValue),
              TotalContributions |->
                  Add(df[k].TotalContributions, other[k].TotalContributions),
              AccruedInterest |->
                  Add(df[k].AccruedInterest, other[k].AccruedInterest)]
        ELSE [Year |-> df[k].Year, TotalValue |-> NaN,
              TotalContributions |-> NaN, AccruedInterest |-> NaN]]

\* df[col].iloc[-1]
iloc_last(df) == df[Len(df)]

\* the literal 41 of line 159: the horizon of __main__ plus one
TerminalYear == NYears + 1

\* lines 152-153
gain(df) == Sub(iloc_last(df).TotalValue, iloc_last(df).TotalContributions)
tax(df, rate) == Mul(gain(df), rate)

\* the one-row DataFrame of lines 157-164
terminal_row_untaxed(df, rate) ==
    [Year |-> TerminalYear, TotalContributions |-> NaN,
     AccruedInterest |-> NaN, TotalValue |-> iloc_last(df).TotalValue]
terminal_row(df, rate) ==
    [Year |-> TerminalYear, TotalContributions |-> NaN,
     AccruedInterest |-> NaN,
     TotalValue |-> Sub(iloc_last(df).TotalValue, tax(df, rate))]

\* pd.concat([...], ignore_index=True)
concat(df, row) == Append(df, row)

\* ------------------------------------------------------------------ state
VARIABLES
    pc,                       \* position of the __main__ script
    interest_rate, fees_stock, fees_3a, tax_rate,
    heap,                     \* DataFrame objects, by id
    data_result, data_result_3a, data_result_tax_benefit, total_3a_result,
    option1, option2,         \* the two integers written in the conclusion
    epc, args, ret            \* one call of calculate_compounding on its own

vars == <<pc, interest_rate, fees_stock, fees_3a, tax_rate, heap,
          data_result, data_result_3a, data_result_tax_benefit,
          total_3a_result, option1, option2, epc, args, ret>>

mainVars == <<pc, interest_rate, fees_stock, fees_3a, tax_rate, heap,
              data_result, data_result_3a, data_result_tax_benefit,
              total_3a_result, option1, option2>>
engineVars == <<epc, args, ret>>

\* values st.number_input can hand back (min_value=0.0, max_value=100.0)
Percentages == {0, 25, 50, 100}

NoArgs == [rate |-> Zero, initial_investment |-> Zero,
           yearly_contributions |-> Zero, n_years |-> 0]
NoRet == [err |-> "unset", rows |-> <<>>]

rate_stocks == Sub(interest_rate, fees_stock)
rate_3a == Sub(interest_rate, fees_3a)

Init ==
    /\ pc = "inputs"
    /\ interest_rate = Zero /\ fees_stock = Zero
    /\ fees_3a = Zero /\ tax_rate = Zero
    /\ heap = <<>>
    /\ data_result = 0 /\ data_result_3a = 0
    /\ data_result_tax_benefit = 0 /\ total_3a_result = 0
    /\ option1 = 0 /\ option2 = 0
    /\ epc = "idle" /\ args = NoArgs /\ ret = NoRet

\* ------------------------------------------------------- __main__ script
\* lines 78-96: the four number inputs, each divided by 100
ReadInputs ==
    /\ pc = "inputs"
    /\ \E i, fs, fa, t \in Percentages :
          /\ interest_rate' = Rat(i, Percent)
          /\ fees_stock' = Rat(fs, Percent)
          /\ fees_3a' = Rat(fa, Percent)
          /\ tax_rate' = Rat(t, Percent)
    /\ pc' = "option1"
    /\ UNCHANGED <<heap, data_result, data_result_3a, data_result_tax_benefit,
                   total_3a_result, option1, option2, engineVars>>

\* lines 107-110
Option1 ==
    /\ pc = "option1"
    /\ heap' = Append(heap, calculate_compounding(
                   rate_stocks, Zero, Rat(YearlyContribution, 1), NYears).rows)
    /\ data_result' = Len(heap) + 1
    /\ pc' = "option2_3a"
    /\ UNCHANGED <<interest_rate, fees_stock, fees_3a, tax_rate,
                   data_result_3a, data_result_tax_benefit, total_3a_result,
                   option1, option2, engineVars>>

\* lines 128-131
Option2Account ==
    /\ pc = "option2_3a"
    /\ heap' = Append(heap, calculate_compounding(
                   rate_3a, Zero, Rat(YearlyContribution, 1), NYears).rows)
    /\ data_result_3a' = Len(heap) + 1
    /\ pc' = "tax_benefit"
    /\ UNCHANGED <<interest_rate, fees_stock, fees_3a, tax_rate,
                   data_result, data_result_tax_benefit, total_3a_result,
                   option1, option2, engineVars>>

\* lines 137-139
Option2TaxBenefit ==
    /\ pc = "tax_benefit"
    /\ heap' = Append(heap, calculate_compounding(
                   rate_stocks, Zero,
                   Mul(Rat(YearlyContribution, 1), tax_rate), NYears).rows)
    /\ data_result_tax_benefit' = Len(heap) + 1
    /\ pc' = "merge"
    /\ UNCHANGED <<interest_rate, fees_stock, fees_3a, tax_rate,
                   data_result, data_result_3a, total_3a_result,
                   option1, option2, engineVars>>

\* lines 145-149: copy, then the three in-place column additions
Merge ==
    /\ pc = "merge"
    /\ LET c == copy(heap, data_result_3a)
       IN /\ heap' = [c.heap EXCEPT ![c.id] =
                         merge_sum(c.heap[c.id],
                                   c.heap[data_result_tax_benefit])]
          /\ total_3a_result' = c.id
    /\ pc' = "taxes"
    /\ UNCHANGED <<interest_rate, fees_stock, fees_3a, tax_rate,
                   data_result, data_result_3a, data_result_tax_benefit,
                   option1, option2, engineVars>>

\* lines 151-167: gain, tax, and the concatenation into a new DataFrame
TaxesAtTheEnd ==
    /\ pc = "taxes"
    /\ heap' = Append(heap, concat(heap[total_3a_result],
                                   terminal_row(heap[total_3a_result],
                                                tax_rate)))
    /\ total_3a_result' = Len(heap) + 1
    /\ pc' = "conclusion"
    /\ UNCHANGED <<interest_rate, fees_stock, fees_3a, tax_rate,
                   data_result, data_result_3a, data_result_tax_benefit,
                   option1, option2, engineVars>>

\* lines 174-181
Conclusion ==
    /\ pc = "conclusion"
    /\ option1' = int(iloc_last(heap[data_result]).TotalValue)
    /\ option2' = int(iloc_last(heap[total_3a_result]).TotalValue)
    /\ pc' = "done"
    /\ UNCHANGED <<interest_rate, fees_stock, fees_3a, tax_rate, heap,
                   data_result, data_result_3a, data_result_tax_benefit,
                   total_3a_result, engineVars>>

\* Streamlit runs the script again from the top when an input changes.
Rerun ==
    /\ pc = "done"
    /\ pc' = "inputs"
    /\ interest_rate' = Zero /\ fees_stock' = Zero
    /\ fees_3a' = Zero /\ tax_rate' = Zero
    /\ heap' = <<>>
    /\ data_result' = 0 /\ data_result_3a' = 0
    /\ data_result_tax_benefit' = 0 /\ total_3a_result' = 0
    /\ option1' = 0 /\ option2' = 0
    /\ UNCHANGED engineVars

Next ==
    \/ ReadInputs
    \/ Option1
    \/ Option2Account
    \/ Option2TaxBenefit
    \/ Merge
    \/ TaxesAtTheEnd
    \/ Conclusion
    \/ Rerun

Spec == Init /\ [][Next]_vars

\* --------------------------------- calculate_compounding called on its own
EngineRates == {Rat(k, 2) : k \in -3..2}
Amounts == {Rat(a, 1) : a \in -MaxAmount..MaxAmount}
Horizons == -2..MaxYears

Call ==
    /\ epc = "idle"
    /\ \E r \in EngineRates, i0 \in Amounts, yc \in Amounts, n \in Horizons :
          args' = [rate |-> r, initial_investment |-> i0,
                   yearly_contributions |-> yc, n_years |-> n]
    /\ epc' = "called"
    /\ ret' = NoRet
    /\ UNCHANGED mainVars

Return ==
    /\ epc = "called"
    /\ ret' = calculate_compounding(args.rate, args.initial_investment,
                                    args.yearly_contributions, args.n_years)
    /\ epc' = "returned"
    /\ UNCHANGED <<args, mainVars>>

Discard ==
    /\ epc = "returned"
    /\ epc' = "idle" /\ args' = NoArgs /\ ret' = NoRet
    /\ UNCHANGED mainVars

NextEngine ==
    \/ Call
    \/ Return
    \/ Discard

SpecEngine == Init /\ [][NextEngine]_vars

\* ------------------- the merge statements on two projections of any length
MergeInputs ==
    {calculate_compounding(r, Zero, yc, n).rows :
        r \in EngineRates, yc \in Amounts, n \in 1..MaxYears}

InitMerge ==
    /\ pc = "merge"
    /\ interest_rate = Zero /\ fees_stock = Zero
    /\ fees_3a = Zero /\ tax_rate = Zero
    /\ \E a, b \in MergeInputs : heap = <<a, b>>
    /\ data_result = 0 /\ data_result_3a = 1
    /\ data_result_tax_benefit = 2 /\ total_3a_result = 0
    /\ option1 = 0 /\ option2 = 0
    /\ epc = "idle" /\ args = NoArgs /\ ret = NoRet

NextMerge == Merge

SpecMerge == InitMerge /\ [][NextMerge]_vars

\* ================================================================= claims
Returned == epc = "returned"
Valid == Returned /\ args.n_years >= 1
NonNeg(x) == Leq(Zero, x)

\* value[i-1] as the caller sees it: the initial amount, then the rows
Previous(i) ==
    IF i = 1 THEN args.initial_investment ELSE ret.rows[i - 1].TotalValue

\* C1: for years >= 1 the returned series has, at year i, the value of the
\* recurrence value[0] = initial, value[i] = value[i-1]*(1+rate)+contribution;
\* the year-0 value is not a row.
C1_Recurrence ==
    Valid =>
        /\ ret.err = "none"
        /\ Len(ret.rows) = args.n_years
        /\ \A i \in 1..args.n_years :
              ret.rows[i].TotalValue =
                  Add(Mul(Previous(i), Add(One, args.rate)),
                      args.yearly_contributions)

\* project(1/2, 1, 2, 2): year 1 = 1*1.5+2 = 7/2, year 2 = 3.5*1.5+2 = 29/4
C1_Witness ==
    /\ Returned
    /\ args = [rate |-> Rat(1, 2), initial_investment |-> Rat(1, 1),
               yearly_contributions |-> Rat(2, 1), n_years |-> 2]
    /\ ret.rows[1].TotalValue = Rat(7, 2)
    /\ ret.rows[2].TotalValue = Rat(29, 4)

\* C2: for years >= 1 exactly `years` rows are returned and their Year
\* fields are 1, 2, ..., years in row order.
C2_Years ==
    Valid =>
        /\ Len(ret.rows) = args.n_years
        /\ \A k \in 1..Len(ret.rows) : ret.rows[k].Year = k
        /\ \A k \in 1..(Len(ret.rows) - 1) :
              ret.rows[k].Year < ret.rows[k + 1].Year

C2_Witness ==
    /\ Returned /\ args.n_years >= 3
    /\ Len(ret.rows) >= 3 /\ ret.rows[3].Year = 3

\* C4: a call with years <= 0 fails with an error and returns no series.
C4_NonPositiveYearsFail ==
    (Returned /\ args.n_years <= 0) => ret.err # "none"

\* C8: with rate >= 0, contribution >= 0 and initial >= 0 the Total Value
\* never decreases from one year to the next.
C8_Monotone ==
    (Valid /\ NonNeg(args.rate) /\ NonNeg(args.yearly_contributions)
           /\ NonNeg(args.initial_investment)) =>
        \A i \in 1..(args.n_years - 1) :
            Leq(ret.rows[i].TotalValue, ret.rows[i + 1].TotalValue)

C8_Witness ==
    /\ Valid /\ args.n_years >= 2
    /\ args.rate.n > 0 /\ args.yearly_contributions.n > 0
    /\ args.initial_investment.n > 0
    /\ ret.rows[1].TotalValue # ret.rows[2].TotalValue
    /\ Leq(ret.rows[1].TotalValue, ret.rows[2].TotalValue)

\* C9 as stated: whenever rate >= 0, every row has Accrued Interest >= 0,
\* whatever the initial amount and the contribution.
C9_NegativeOnlyIfRateNegative ==
    (Valid /\ NonNeg(args.rate)) =>
        \A i \in 1..args.n_years : NonNeg(ret.rows[i].AccruedInterest)

\* C9 amended: whenever rate >= 0, initial >= 0 and contribution >= 0, every
\* row has Accrued Interest >= 0.
C9_NonNegativeInterest ==
    (Valid /\ NonNeg(args.rate) /\ NonNeg(args.yearly_contributions)
           /\ NonNeg(args.initial_investment)) =>
        \A i \in 1..args.n_years : NonNeg(ret.rows[i].AccruedInterest)

C9_Witness ==
    /\ Valid /\ args.n_years >= 2
    /\ args.rate.n > 0 /\ args.yearly_contributions.n > 0
    /\ NonNeg(args.initial_investment)
    /\ ret.rows[2].AccruedInterest.n > 0

\* ------------------------------------------------ claims on the script
Merged == pc \in {"taxes", "conclusion", "done"}
Taxed == pc \in {"conclusion", "done"}
Account == heap[data_result_3a]
TaxBenefit == heap[data_result_tax_benefit]
Total == heap[total_3a_result]

\* C3: in every row of every projection, and in rows 1..N of the merged
\* series, Total Value = Total Contributions + Accrued Interest.
C3_ValueIsContributionsPlusInterest ==
    \A id \in 1..Len(heap) :
        \A k \in 1..Len(heap[id]) :
            k <= NYears =>
                /\ ~IsNaN(heap[id][k].TotalValue)
                /\ heap[id][k].TotalValue =
                       Add(heap[id][k].TotalContributions,
                           heap[id][k].AccruedInterest)

C3_Witness ==
    /\ Taxed
    /\ Total[NYears].AccruedInterest.n > 0
    /\ TaxBenefit[NYears].AccruedInterest.n > 0
    /\ Total[NYears].TotalValue # Account[NYears].TotalValue

\* C5: the merge of two series of length N has length N and, for each year,
\* the sums of the inputs' three values; with the terminal row appended the
\* series has length N+1 and its last row has only Total Value populated.
C5_MergeSumsThenAppends ==
    /\ Merged =>
          /\ Len(Account) = NYears /\ Len(TaxBenefit) = NYears
          /\ \A k \in 1..NYears :
                /\ Total[k].Year = k
                /\ Total[k].TotalValue =
                       Add(Account[k].TotalValue, TaxBenefit[k].TotalValue)
                /\ Total[k].TotalContributions =
                       Add(Account[k].TotalContributions,
                           TaxBenefit[k].TotalContributions)
                /\ Total[k].AccruedInterest =
                       Add(Account[k].AccruedInterest,
                           TaxBenefit[k].AccruedInterest)
                /\ ~IsNaN(Total[k].TotalValue)
                /\ ~IsNaN(Total[k].TotalContributions)
                /\ ~IsNaN(Total[k].AccruedInterest)
    /\ pc = "taxes" => Len(Total) = NYears
    /\ Taxed =>
          /\ Len(Total) = NYears + 1
          /\ IsNaN(Total[NYears + 1].TotalContributions)
          /\ IsNaN(Total[NYears + 1].AccruedInterest)
          /\ ~IsNaN(Total[NYears + 1].TotalValue)

C5_Witness ==
    /\ Taxed
    /\ Len(Total) = NYears + 1
    /\ TaxBenefit[1].TotalValue.n > 0
    /\ TaxBenefit[NYears].AccruedInterest.n # 0
    /\ IsNaN(Total[NYears + 1].AccruedInterest)

\* C6 as stated: the terminal row has year = years + 1 and Total Value =
\* last.totalValue - taxRate * (last.totalValue - last.totalContributions),
\* and the reported Option 2 summary equals that Total Value.
C6_SummaryIsTerminalValue ==
    /\ Taxed =>
          /\ Total[NYears + 1].Year = NYears + 1
          /\ Total[NYears + 1].TotalValue =
                 Sub(Total[NYears].TotalValue,
                     Mul(tax_rate, Sub(Total[NYears].TotalValue,
                                       Total[NYears].TotalContributions)))
    /\ pc = "done" => Rat(option2, 1) = Total[NYears + 1].TotalValue

\* C6 amended: the same terminal row; the reported Option 2 summary is that
\* Total Value truncated toward zero to an integer.
C6_SummaryIsTruncatedTerminalValue ==
    /\ Taxed =>
          /\ Len(Total) = NYears + 1
          /\ Total[NYears + 1].Year = NYears + 1
          /\ Total[NYears + 1].TotalValue =
                 Sub(Total[NYears].TotalValue,
                     Mul(tax_rate, Sub(Total[NYears].TotalValue,
                                       Total[NYears].TotalContributions)))
    /\ pc = "done" =>
          LET v == Total[NYears + 1].TotalValue
              magnitude == [n |-> Abs(v.n), d |-> v.d]
          IN /\ Leq(Rat(Abs(option2), 1), magnitude)
             /\ ~Leq(Rat(Abs(option2) + 1, 1), magnitude)
             /\ (option2 < 0) => (v.n < 0)
             /\ (option2 > 0) => (v.n > 0)

C6_Witness ==
    /\ pc = "done"
    /\ tax_rate.n > 0
    /\ Total[NYears + 1].TotalValue # Total[NYears].TotalValue
    /\ Total[NYears + 1].TotalValue.d > 1
    /\ option2 > 0

C10_OriginalsPreserved ==
    Merged =>
        /\ heap[data_result] =
               calculate_compounding(rate_stocks, Zero,
                   Rat(YearlyContribution, 1), NYears).rows
        /\ Account =
               calculate_compounding(rate_3a, Zero,
                   Rat(YearlyContribution, 1), NYears).rows
        /\ TaxBenefit =
               calculate_compounding(rate_stocks, Zero,
                   Mul(Rat(YearlyContribution, 1), tax_rate), NYears).rows

C10_Witness ==
    /\ pc = "done"
    /\ total_3a_result # data_result_3a
    /\ Total[1].TotalValue # Account[1].TotalValue
    /\ Len(Total) = Len(Account) + 1

=============================================================================
